---- MODULE Spec2Model ----
(***************************************************************************)
(* Alignment scoring engine of Fold_U: the threading energy score, the     *)
(* two distance-matrix builders, the secondary-structure, solvent-         *)
(* accessibility and co-evolution scores, the MODELLER call, and the       *)
(* top-N table of the benchmarking script.                                 *)
(*                                                                         *)
(* Python lists and numpy axes are indexed from 0, so residue lists and    *)
(* matrices are functions over 0..n-1.  Lengths are in tenths of an        *)
(* angstrom (Scale), so that 3.8 A is the integer 38.                      *)
(***************************************************************************)
EXTENDS Integers, Sequences, FiniteSets, TLC

VARIABLES
    query,       \* self.query.residues: [0..L-1 -> residue record]
    template,    \* self.template.residues: [0..L-1 -> residue record]
    dist_range,  \* <<lo, hi>> in tenths of an angstrom
    first,       \* self.query.first (1-based, ungapped query)
    last,        \* self.query.last
    size,        \* len(index_list): real size of the query sequence
    pc,          \* "input" before the call, "done" after it
    result,      \* what the call returned
    cwd,         \* the process's working directory (os.getcwd())
    dirs,        \* the directories that exist
    workers,     \* the running calculate_modeller_score calls, by alignment
    BENCHMARKING_SCORES,  \* score -> structure -> row -> cumulative count
    foldrecs     \* the sorted score tables the main loop has read so far

vars == <<query, template, dist_range, first, last, size, pc, result,
          cwd, dirs, workers, BENCHMARKING_SCORES, foldrecs>>

\* the directory the program is started in; a path is the sequence of its parts
RootDir == <<"fold_u">>

\* no calculate_modeller_score call is running
NoModeller == cwd = RootDir /\ dirs = {RootDir} /\ workers = <<>>

\* the benchmarking script is not running
NoBenchmark == BENCHMARKING_SCORES = <<>> /\ foldrecs = <<>>

----------------------------------------------------------------------------
(* Bounds of the model *)

\* longest alignment given to calculate_threading_score
MaxLen == 6
\* longest alignment given to calc_dist_matrix
MaxDistLen == 5
\* longest alignment given to calculate_ss_score
MaxSSLen == 3
\* longest fully-gapped query given to calculate_ss_score
MaxGapLen == 5

\* tenths of an angstrom per angstrom
Scale == 10

----------------------------------------------------------------------------
(* Residues and helpers *)

GAP == "-"

\* len(list)
Size(seq) == Cardinality(DOMAIN seq)

\* Query.get_size(): the length of the alignment, gaps included
get_size(residues) == Size(residues)

IsGap(res) == res.name = GAP

Abs(x) == IF x < 0 THEN -x ELSE x

\* Residue.calculate_distance(other, atom): CA atoms lie on a line
calculate_distance(res_a, res_b) == Abs(res_a.ca - res_b.ca)

\* a query residue and a template residue
QRes(n, ss, conf) == [name |-> n, secondary_struct |-> ss, ss_confidence |-> conf]
TRes(n, ss, x) == [name |-> n, secondary_struct |-> ss, ca |-> x]

RECURSIVE SumOver(_, _)
\* sum of f[e] over the elements e of the finite set S
SumOver(S, f) ==
    IF S = {} THEN 0
    ELSE LET e == CHOOSE x \in S : TRUE IN f[e] + SumOver(S \ {e}, f)

----------------------------------------------------------------------------
(* Alignment.calculate_threading_score *)

\* gap_penalty = 0
gap_penalty == 0

\* number of entries of one dope_dict array
DopeLen == 30
\* largest distance of the DOPE table, in angstroms
DopeMax == 15

NameCode(n) == IF n = "A" THEN 1 ELSE IF n = "G" THEN 2 ELSE 0

\* dope_dict[a + b][k]: a fixed table, different for ("A","G") and ("G","A")
dope_dict(a, b, k) == (7 * NameCode(a) + 3 * NameCode(b)) * (k - 12) + NameCode(b) - 2

\* energy cells: numpy NaN, or a number
NaN == [tag |-> "nan", val |-> 0]
Num(v) == [tag |-> "num", val |-> v]

\* energy[i, j] == gap_penalty   (NaN == 0 is False)
IsPenalty(cell) == cell.tag = "num" /\ cell.val = gap_penalty

\* interval_index = round(int((dist * 30) / 15))
IntervalIndex(dist) == (dist * DopeLen) \div (DopeMax * Scale)

\* stop of range(i + 2, query_size - 1)
ColStopAll(query_size) == query_size
ColStop(query_size) == query_size - 1

\* energy[i, (i + 2):] = gap_penalty
FillRowFrom(energy, n, i) ==
    [c \in DOMAIN energy |->
        IF c[1] = i /\ c[2] >= i + 2 /\ c[2] < n THEN Num(gap_penalty) ELSE energy[c]]

\* energy[:(j - 1), j] = gap_penalty
FillColAbove(energy, j) ==
    [c \in DOMAIN energy |->
        IF c[2] = j /\ c[1] < j - 1 THEN Num(gap_penalty) ELSE energy[c]]

RECURSIVE ThreadCols(_, _, _, _, _, _)
\* for j in range(i + 2, query_size - 1): ...   st = [energy, raised]
ThreadCols(st, q, t, dr, i, j) ==
    IF st.raised \/ j >= ColStop(get_size(q)) THEN st
    ELSE IF IsPenalty(st.energy[<<i, j>>])
        THEN ThreadCols(st, q, t, dr, i, j + 1)
    ELSE IF IsGap(q[j]) \/ IsGap(t[j])
        THEN ThreadCols([st EXCEPT !.energy = FillColAbove(@, j)], q, t, dr, i, j + 1)
    ELSE LET dist == calculate_distance(t[i], t[j])
             k == IntervalIndex(dist)
         IN  IF dr[1] <= dist /\ dist <= dr[2]
             THEN IF k >= DopeLen
                  THEN [st EXCEPT !.raised = TRUE]          \* IndexError
                  ELSE ThreadCols(
                         [st EXCEPT !.energy[<<i, j>>] = Num(dope_dict(q[i].name, q[j].name, k))],
                         q, t, dr, i, j + 1)
             ELSE ThreadCols(st, q, t, dr, i, j + 1)

RECURSIVE ThreadRows(_, _, _, _, _)
\* for i, row_res in enumerate(query): ...
ThreadRows(st, q, t, dr, i) ==
    LET n == get_size(q) IN
    IF st.raised \/ i >= n THEN st
    ELSE IF i <= n - 3 /\ IsPenalty(st.energy[<<i, i + 2>>])
        THEN ThreadRows(st, q, t, dr, i + 1)
    ELSE IF IsGap(q[i]) \/ IsGap(t[i])
        THEN ThreadRows([st EXCEPT !.energy = FillRowFrom(@, n, i)], q, t, dr, i + 1)
    ELSE ThreadRows(ThreadCols(st, q, t, dr, i, i + 2), q, t, dr, i + 1)

\* np.nansum(energy)
nansum(energy) ==
    SumOver(DOMAIN energy, [c \in DOMAIN energy |->
                               IF energy[c].tag = "num" THEN energy[c].val ELSE 0])

\* the whole call: [raised, value, energy]
calculate_threading_score(q, t, dr) ==
    LET n == get_size(q)
        energy0 == [c \in (0 .. n - 1) \X (0 .. n - 1) |-> NaN]
        st == ThreadRows([energy |-> energy0, raised |-> FALSE], q, t, dr, 0)
    IN  [raised |-> st.raised,
         value |-> IF st.raised THEN 0 ELSE nansum(st.energy) * (-1),
         energy |-> st.energy]

----------------------------------------------------------------------------
(* Inputs of the threading score *)

QNames == {"A", "G", GAP}
TNames == {"A", GAP}

\* distance between consecutive CA atoms of the template, in tenths
Spacings == {38, 39, 50}
DistRanges == {<<40, 120>>, <<40, 150>>}

\* an alignment column: the query name and the template name.  The short
\* alignments get every column, a gap in both sequences included; the longer
\* ones get one column for a gap in the template (the code reads no query name
\* there) and none with two gaps.
Columns(n) ==
    IF n <= 3 THEN QNames \X TNames
    ELSE {c \in QNames \X TNames : c[2] # GAP \/ c[1] = "A"}

ThreadingInputs(n) ==
    {[q |-> [i \in 0 .. n - 1 |-> QRes(cols[i][1], GAP, 0)],
      t |-> [i \in 0 .. n - 1 |-> TRes(cols[i][2], GAP, i * sp)]] :
        cols \in [0 .. n - 1 -> Columns(n)], sp \in Spacings}

NoResult == [raised |-> FALSE, value |-> 0]

InitThreading ==
    /\ \E n \in 0 .. MaxLen : \E inp \in ThreadingInputs(n) :
          query = inp.q /\ template = inp.t
    /\ dist_range \in DistRanges
    /\ first = 1 /\ last = 1 /\ size = 0
    /\ pc = "input"
    /\ result = NoResult
    /\ NoModeller /\ NoBenchmark

CallThreadingScore ==
    /\ pc = "input"
    /\ result' = calculate_threading_score(query, template, dist_range)
    /\ pc' = "done"
    /\ UNCHANGED <<query, template, dist_range, first, last, size>>
    /\ UNCHANGED <<cwd, dirs, workers, BENCHMARKING_SCORES, foldrecs>>

NextThreading == CallThreadingScore

SpecThreading == InitThreading /\ [][NextThreading]_vars

----------------------------------------------------------------------------
(* Claims about calculate_threading_score *)

ThreadingDone == pc = "done" /\ "energy" \in DOMAIN result

NonGapAt(i) == ~IsGap(query[i]) /\ ~IsGap(template[i])

Gapless == \A i \in DOMAIN query : NonGapAt(i)

TemplateDist(i, j) == calculate_distance(template[i], template[j])

\* the pairs the threading score is specified to sum over
QualifyingPairs ==
    {c \in (DOMAIN query) \X (DOMAIN query) :
        /\ c[2] >= c[1] + 2
        /\ NonGapAt(c[1]) /\ NonGapAt(c[2])
        /\ dist_range[1] <= TemplateDist(c[1], c[2])
        /\ TemplateDist(c[1], c[2]) <= dist_range[2]}

\* the energy looked up for the pair c under the key query[i].name + query[j].name
PairEnergy(c) ==
    dope_dict(query[c[1]].name, query[c[2]].name, IntervalIndex(TemplateDist(c[1], c[2])))

\* C1: for a gapless alignment of any length the returned score is -1 times the
\* sum of the looked-up energies of every pair (i, j), j >= i + 2, whose template
\* distance is in dist_range, the pairs of the last column L-1 included.
C1_SumsEveryPair ==
    (ThreadingDone /\ Gapless /\ ~result.raised)
        => result.value = (-1) * SumOver(QualifyingPairs, [c \in QualifyingPairs |-> PairEnergy(c)])

\* C2: a gap removes only the pairs that involve it: every pair (i, j), j >= i + 2,
\* of two non-gap positions with the template distance in dist_range has its
\* looked-up energy in the energy matrix.  Stated here for the columns j <= L-2
\* only, the ones the column loop visits, so that the last column (C1) is not
\* what refutes it.
C2_GapDropsOnlyItsPairs ==
    (ThreadingDone /\ ~result.raised)
        => \A c \in QualifyingPairs :
              c[2] <= get_size(query) - 2 => result.energy[c] = Num(PairEnergy(c))

\* C3: for any alignment of length <= 3 the call does not raise and returns 0.
C3_ShortAlignmentScoresZero ==
    (ThreadingDone /\ get_size(query) <= 3)
        => (~result.raised /\ result.value = 0)

\* a gapless alignment of length 3 whose pair (0, 2) is in dist_range was scored
C3_Witness ==
    /\ ThreadingDone
    /\ get_size(query) = 3
    /\ Gapless
    /\ <<0, 2>> \in QualifyingPairs
    /\ PairEnergy(<<0, 2>>) # 0

----------------------------------------------------------------------------
(* threading.calc_dist_matrix *)

\* matrix cells: np.inf (unset), the gap marker "*", or a distance
Inf == [tag |-> "inf", val |-> 0]
Star == [tag |-> "*", val |-> 0]
Dist(d) == [tag |-> "dist", val |-> d]

\* matrix[i, j:] = "*"
FillRowCell(matrix, n, i, j) ==
    [c \in DOMAIN matrix |-> IF c[1] = i /\ c[2] = j THEN Star ELSE matrix[c]]
FillRowTail(matrix, n, i, j) ==
    [c \in DOMAIN matrix |-> IF c[1] = i /\ c[2] >= j /\ c[2] < n THEN Star ELSE matrix[c]]

\* matrix[:i, j] = "*"
FillColHead(matrix, i, j) ==
    [c \in DOMAIN matrix |-> IF c[1] < i /\ c[2] = j THEN Star ELSE matrix[c]]

RECURSIVE DistCols(_, _, _, _, _, _)
\* for j in range(i, len(query)): ...   (both gap branches end the loop: break)
DistCols(matrix, q, t, dr, i, j) ==
    LET n == Size(q) IN
    IF j >= n THEN matrix
    ELSE IF IsGap(q[i]) \/ IsGap(t[i]) THEN FillRowTail(matrix, n, i, j)
    ELSE IF IsGap(q[j]) \/ IsGap(t[j]) THEN FillColHead(matrix, i, j)
    ELSE LET dist == calculate_distance(t[i], t[j])
         IN  DistCols(IF dr[1] <= dist /\ dist <= dr[2]
                          THEN [matrix EXCEPT ![<<i, j>>] = Dist(dist)]
                          ELSE matrix,
                      q, t, dr, i, j + 1)

RECURSIVE DistRows(_, _, _, _, _)
\* the matrix after the iterations i = 0 .. stop-1 of the outer loop
DistRows(q, t, dr, matrix0, stop) ==
    IF stop = 0 THEN matrix0
    ELSE DistCols(DistRows(q, t, dr, matrix0, stop - 1), q, t, dr, stop - 1, stop - 1)

\* the whole call: the returned matrix, and the matrix after each row iteration
calc_dist_matrix(q, t, dr) ==
    LET query_size == Size(q)
        matrix0 == [c \in (0 .. query_size - 1) \X (0 .. query_size - 1) |-> Inf]
    IN  [matrix |-> DistRows(q, t, dr, matrix0, query_size),
         after |-> [k \in 0 .. query_size |-> DistRows(q, t, dr, matrix0, k)]]

----------------------------------------------------------------------------
(* Inputs of calc_dist_matrix *)

DistNames == {"A", GAP}
DistSpacings == {38, 50}
DistMatrixRanges == {<<0, 120>>, <<40, 120>>}

DistInputs(n) ==
    {[q |-> [i \in 0 .. n - 1 |-> QRes(cols[i][1], GAP, 0)],
      t |-> [i \in 0 .. n - 1 |-> TRes(cols[i][2], GAP, i * sp)]] :
        cols \in [0 .. n - 1 -> DistNames \X DistNames], sp \in DistSpacings}

InitDist ==
    /\ \E n \in 0 .. MaxDistLen : \E inp \in DistInputs(n) :
          query = inp.q /\ template = inp.t
    /\ dist_range \in DistMatrixRanges
    /\ first = 1 /\ last = 1 /\ size = 0
    /\ pc = "input"
    /\ result = NoResult
    /\ NoModeller /\ NoBenchmark

CallCalcDistMatrix ==
    /\ pc = "input"
    /\ result' = calc_dist_matrix(query, template, dist_range)
    /\ pc' = "done"
    /\ UNCHANGED <<query, template, dist_range, first, last, size>>
    /\ UNCHANGED <<cwd, dirs, workers, BENCHMARKING_SCORES, foldrecs>>

NextDist == CallCalcDistMatrix

SpecDist == InitDist /\ [][NextDist]_vars

----------------------------------------------------------------------------
(* Claims about calc_dist_matrix *)

DistDone == pc = "done" /\ "matrix" \in DOMAIN result

InDistRange(i, j) ==
    dist_range[1] <= TemplateDist(i, j) /\ TemplateDist(i, j) <= dist_range[2]

\* entry [i, j] as obtained by checking the pair (i, j) on its own
PairwiseEntry(i, j) ==
    IF ~NonGapAt(i) \/ ~NonGapAt(j) THEN Star
    ELSE IF InDistRange(i, j) THEN Dist(TemplateDist(i, j))
    ELSE Inf

\* C4: for every i < j the returned matrix holds what checking the pair on its
\* own gives: "*" if i or j is a gap in the query or the template, else the
\* template distance if it is in [lo, hi], else unset.
C4_SameAsPairwise ==
    DistDone
        => \A i \in DOMAIN query : \A j \in DOMAIN query :
              i < j => result.matrix[<<i, j>>] = PairwiseEntry(i, j)

\* C5: for every position i that is a gap in the query or the template, every
\* entry [i, j] with j > i is the gap marker in the returned matrix, and is the
\* gap marker after row i and after every later row iteration.
C5_GapRowIsMarked ==
    DistDone
        => \A i \in DOMAIN query : \A j \in DOMAIN query :
              (~NonGapAt(i) /\ j > i)
                  => /\ result.matrix[<<i, j>>] = Star
                     /\ \A k \in (i + 1) .. get_size(query) : result.after[k][<<i, j>>] = Star

\* a gap row with entries to its right, followed by a row that stores a distance
C5_Witness ==
    /\ DistDone
    /\ \E i \in DOMAIN query : \E j \in DOMAIN query : \E r \in DOMAIN query :
          /\ ~NonGapAt(i) /\ j > i + 1 /\ NonGapAt(j)
          /\ r > i /\ r < j /\ result.matrix[<<r, j>>].tag = "dist"
          /\ result.matrix[<<i, j>>] = Star

----------------------------------------------------------------------------
(* Alignment.calculate_distance_matrix *)

\* distance cells: None (np.empty of dtype object), the marker "x", or a distance
None == [tag |-> "none", val |-> 0]
X == [tag |-> "x", val |-> 0]

\* a template residue with its CB atom (cb_atom.coords is None when has_cb is FALSE)
TResCB(n, x, has, cbx) ==
    [name |-> n, secondary_struct |-> GAP, ca |-> x, has_cb |-> has, cb |-> cbx]

\* distance between beta-carbons when both are resolved, alpha-carbons otherwise
AtomDistance(res_a, res_b) ==
    IF res_a.has_cb /\ res_b.has_cb
        THEN Abs(res_a.cb - res_b.cb)
        ELSE calculate_distance(res_a, res_b)

\* the cursor left where it is
SkipNoGaps(q, index) == index

RECURSIVE SkipQueryGaps(_, _)
\* while index < query_size and self.query.residues[index].name == "-": index += 1
SkipQueryGaps(q, index) ==
    IF index < get_size(q) /\ IsGap(q[index]) THEN SkipQueryGaps(q, index + 1) ELSE index

\* distance[r, (r + 1):] = "x"
MarkRowRight(distance, sz, r) ==
    [c \in DOMAIN distance |-> IF c[1] = r /\ c[2] >= r + 1 THEN X ELSE distance[c]]

\* distance[:pos, (pos + 1):] = "x"
MarkBlock(distance, pos) ==
    [c \in DOMAIN distance |-> IF c[1] < pos /\ c[2] >= pos + 1 THEN X ELSE distance[c]]

Raise(st, err) == [st EXCEPT !.raised = err]

RECURSIVE DMLeading(_, _, _, _)
\* while pos < self.query.first - 1: distance[pos, (pos+1):] = "x"; pos += 1
DMLeading(st, fst, sz, pos) ==
    IF st.raised # "none" \/ pos >= fst - 1 THEN st
    ELSE IF pos >= sz THEN Raise(st, "IndexError")
    ELSE DMLeading([st EXCEPT !.distance = MarkRowRight(@, sz, pos)], fst, sz, pos + 1)

RECURSIVE DMInner(_, _, _, _, _, _, _)
\* for dist_j in range(dist_i + 1, self.query.last): ...
DMInner(st, q, t, lst, sz, dist_i, dist_j) ==
    IF st.raised # "none" \/ dist_j >= lst THEN st
    ELSE LET query_size == get_size(q)
             index_j == SkipQueryGaps(q, st.index_j)
         IN  IF index_j < query_size /\ IsGap(t[index_j])
             THEN IF dist_j >= sz THEN Raise(st, "IndexError")
                  ELSE DMInner([st EXCEPT !.distance = MarkRowRight(@, sz, dist_j),
                                          !.index_j = index_j + 1],
                               q, t, lst, sz, dist_i, dist_j + 1)
             ELSE IF dist_i >= sz \/ dist_j >= sz THEN Raise(st, "IndexError")
             ELSE IF st.distance[<<dist_i, dist_j>>] # X
             THEN IF st.index_i >= query_size \/ index_j >= query_size
                  THEN Raise(st, "IndexError")
                  ELSE DMInner([st EXCEPT
                                   !.distance[<<dist_i, dist_j>>] =
                                       Dist(AtomDistance(t[st.index_i], t[index_j])),
                                   !.index_j = index_j + 1],
                               q, t, lst, sz, dist_i, dist_j + 1)
             ELSE DMInner([st EXCEPT !.index_j = index_j + 1],
                          q, t, lst, sz, dist_i, dist_j + 1)

RECURSIVE DMOuter(_, _, _, _, _, _)
\* for dist_i in range(pos, self.query.last): ...
DMOuter(st, q, t, lst, sz, dist_i) ==
    IF st.raised # "none" \/ dist_i >= lst THEN st
    ELSE LET query_size == get_size(q)
             index_i == SkipQueryGaps(q, st.index_i)
         IN  IF index_i < query_size /\ IsGap(t[index_i])
             THEN IF dist_i >= sz THEN Raise(st, "IndexError")
                  ELSE DMOuter([st EXCEPT !.distance = MarkRowRight(@, sz, dist_i),
                                          !.index_i = index_i + 1],
                               q, t, lst, sz, dist_i + 1)
             ELSE LET row == DMInner([st EXCEPT !.index_i = index_i, !.index_j = index_i + 1],
                                     q, t, lst, sz, dist_i, dist_i + 1)
                  IN  DMOuter([row EXCEPT !.index_i = index_i + 1], q, t, lst, sz, dist_i + 1)

RECURSIVE DMTrailing(_, _, _)
\* while pos < size - 1: distance[:pos, (pos+1):] = "x"; pos += 1
DMTrailing(distance, sz, pos) ==
    IF pos >= sz - 1 THEN distance
    ELSE DMTrailing(MarkBlock(distance, pos), sz, pos + 1)

\* the whole call: [raised, distance]
calculate_distance_matrix(q, t, fst, lst, sz) ==
    LET distance0 == [c \in (0 .. sz - 1) \X (0 .. sz - 1) |-> None]
        st0 == [distance |-> distance0, raised |-> "none", index_i |-> 0, index_j |-> 0]
        led == DMLeading(st0, fst, sz, 0)
        pos == IF fst - 1 > 0 THEN fst - 1 ELSE 0
        body == DMOuter(led, q, t, lst, sz, pos)
    IN  IF body.raised # "none" THEN [raised |-> body.raised, distance |-> body.distance]
        \* pos = dist_i: dist_i was never assigned when range(pos, last) is empty
        ELSE IF pos >= lst THEN [raised |-> "UnboundLocalError", distance |-> body.distance]
        ELSE [raised |-> "none", distance |-> DMTrailing(body.distance, sz, lst - 1)]

----------------------------------------------------------------------------
(* Inputs of calculate_distance_matrix *)

\* longest alignment given to calculate_distance_matrix
MaxDMLen == 4
\* largest query.first
MaxFirst == 3
\* largest query.last and largest real size of the query
MaxSize == 5

\* (query name, template name) of one alignment column
DMColumns == {<<"A", "A">>, <<"A", GAP>>, <<GAP, "A">>}
\* distance between consecutive CA atoms of the template, in tenths
DMSpacing == 38
\* offset of the CB atom of the odd-numbered template residues, in tenths
CBOffset == 15

DMInputs(n) ==
    {[q |-> [i \in 0 .. n - 1 |-> QRes(cols[i][1], GAP, 0)],
      t |-> [i \in 0 .. n - 1 |->
                TResCB(cols[i][2], i * DMSpacing, cb, i * DMSpacing + (i % 2) * CBOffset)]] :
        cols \in [0 .. n - 1 -> DMColumns], cb \in BOOLEAN}

InitDM ==
    /\ \E n \in 0 .. MaxDMLen : \E inp \in DMInputs(n) :
          query = inp.q /\ template = inp.t
    /\ dist_range = <<0, 0>>
    /\ first \in 1 .. MaxFirst
    /\ last \in 0 .. MaxSize
    /\ size \in 0 .. MaxSize
    /\ pc = "input"
    /\ result = NoResult
    /\ NoModeller /\ NoBenchmark

CallCalculateDistanceMatrix ==
    /\ pc = "input"
    /\ result' = calculate_distance_matrix(query, template, first, last, size)
    /\ pc' = "done"
    /\ UNCHANGED <<query, template, dist_range, first, last, size>>
    /\ UNCHANGED <<cwd, dirs, workers, BENCHMARKING_SCORES, foldrecs>>

NextDM == CallCalculateDistanceMatrix

SpecDM == InitDM /\ [][NextDM]_vars

----------------------------------------------------------------------------
(* Claims about calculate_distance_matrix *)

DMDone == pc = "done" /\ "distance" \in DOMAIN result

\* alignment indices of the non-gap query residues
QueryIndices == {i \in DOMAIN query : ~IsGap(query[i])}

\* first/last are the ungapped positions of the first and last aligned query
\* residue, and the query is at least as long as last
WellFormed ==
    /\ first <= last
    /\ last <= size
    /\ Cardinality(QueryIndices) = last - first + 1

InSpan(p) == first - 1 <= p /\ p <= last - 1

\* alignment index of the query residue at ungapped position p (p in the span)
AlignedIndex(p) ==
    CHOOSE i \in QueryIndices :
        Cardinality({k \in QueryIndices : k < i}) = p - (first - 1)

\* p is outside the aligned span, or the template residue aligned to it is a gap
Unaligned(p) == ~InSpan(p) \/ IsGap(template[AlignedIndex(p)])

\* C6: for every pair of ungapped query positions p < q below size, entry [p, q]
\* is the marker "x" if and only if p or q lies outside the aligned span
\* [first-1, last-1] or the template residue aligned to p or to q is a gap.
C6_MarkerIffUnaligned ==
    (DMDone /\ WellFormed /\ result.raised = "none")
        => \A p \in 0 .. size - 1 : \A r \in 0 .. size - 1 :
              p < r => ((result.distance[<<p, r>>] = X) <=> (Unaligned(p) \/ Unaligned(r)))

----------------------------------------------------------------------------
(* Alignment.calculate_ss_score *)

\* self.query.residues[query_ind].ss_confidence < 7
LowConfidenceOrSeven(conf) == conf <= 7
LowConfidence(conf) == conf < 7

RECURSIVE SkipQuerySS(_, _)
\* while query_ind < query_len and query.residues[query_ind].secondary_struct == "-"
SkipQuerySS(q, query_ind) ==
    IF query_ind < get_size(q) /\ q[query_ind].secondary_struct = GAP
        THEN SkipQuerySS(q, query_ind + 1)
        ELSE query_ind

SkipTemplSSNot(q, t, templ_ind) == templ_ind
RECURSIVE SkipTemplSS(_, _, _)
\* while templ_ind < query_len and template.residues[templ_ind].secondary_struct == "-"
SkipTemplSS(q, t, templ_ind) ==
    IF templ_ind < get_size(q) /\ t[templ_ind].secondary_struct = GAP
        THEN SkipTemplSS(q, t, templ_ind + 1)
        ELSE templ_ind

RECURSIVE SSLoop(_, _, _, _, _, _)
\* while ind < query_len: ...   returns total_incorrect
SSLoop(q, t, ind, query_ind0, templ_ind0, total_incorrect) ==
    LET query_len == get_size(q) IN
    IF ind >= query_len THEN total_incorrect
    ELSE LET query_ind == SkipQuerySS(q, query_ind0)
             templ_ind == SkipTemplSS(q, t, templ_ind0)
             incorrect ==
                 /\ query_ind < query_len
                 /\ templ_ind < query_len
                 /\ LowConfidence(q[query_ind].ss_confidence)
                 /\ q[query_ind].secondary_struct # t[templ_ind].secondary_struct
         IN  SSLoop(q, t, ind + 1, query_ind + 1, templ_ind + 1,
                    IF incorrect THEN total_incorrect + 1 ELSE total_incorrect)

\* score = (gapless_query_len - total_incorrect) / gapless_query_len, with the
\* ZeroDivisionError left to propagate
Q3Uncaught(gapless_query_len, total_incorrect) ==
    IF gapless_query_len = 0
        THEN [raised |-> TRUE, reported |-> FALSE, num |-> 0, den |-> 1]
        ELSE [raised |-> FALSE, reported |-> FALSE,
              num |-> gapless_query_len - total_incorrect, den |-> gapless_query_len]
\* try: score = (gapless_query_len - total_incorrect) / gapless_query_len
\* except ZeroDivisionError: print(...)      score stays 0.  The score is num/den.
Q3(gapless_query_len, total_incorrect) ==
    IF gapless_query_len = 0
        THEN [raised |-> FALSE, reported |-> TRUE, num |-> 0, den |-> 1]
        ELSE [raised |-> FALSE, reported |-> FALSE,
              num |-> gapless_query_len - total_incorrect, den |-> gapless_query_len]

\* the whole call: [raised, reported, num, den, total_incorrect]
calculate_ss_score(q, t) ==
    LET total_incorrect == SSLoop(q, t, 0, 0, 0, 0)
        gapless_query_len == Cardinality({i \in DOMAIN q : q[i].name # GAP})
        score == Q3(gapless_query_len, total_incorrect)
    IN  [raised |-> score.raised, reported |-> score.reported,
         num |-> score.num, den |-> score.den, total_incorrect |-> total_incorrect]

----------------------------------------------------------------------------
(* Inputs of calculate_ss_score *)

SSNames == {"A", GAP}
QueryLabels == {"H", "E", GAP}
TemplLabels == {"H", GAP}
\* PSIPRED confidences on both sides of the threshold
Confidences == {6, 7}

\* any placement of gap names, labels and confidences
SSInputs(n) ==
    {[q |-> [i \in 0 .. n - 1 |-> QRes(qs[i][1], qs[i][2], qs[i][3])],
      t |-> [i \in 0 .. n - 1 |-> TRes("A", ts[i], 0)]] :
        qs \in [0 .. n - 1 -> SSNames \X QueryLabels \X Confidences],
        ts \in [0 .. n - 1 -> TemplLabels]}

\* a fully-gapped query against any template
GappedInputs(n) ==
    {[q |-> [i \in 0 .. n - 1 |-> QRes(GAP, GAP, 0)],
      t |-> [i \in 0 .. n - 1 |-> TRes("A", ts[i], 0)]] :
        ts \in [0 .. n - 1 -> TemplLabels]}

InitSS ==
    /\ \/ \E n \in 1 .. MaxSSLen : \E inp \in SSInputs(n) :
             query = inp.q /\ template = inp.t
       \/ \E n \in 1 .. MaxGapLen : \E inp \in GappedInputs(n) :
             query = inp.q /\ template = inp.t
    /\ dist_range = <<0, 0>>
    /\ first = 1 /\ last = 1 /\ size = 0
    /\ pc = "input"
    /\ result = NoResult
    /\ NoModeller /\ NoBenchmark

CallSSScore ==
    /\ pc = "input"
    /\ result' = calculate_ss_score(query, template)
    /\ pc' = "done"
    /\ UNCHANGED <<query, template, dist_range, first, last, size>>
    /\ UNCHANGED <<cwd, dirs, workers, BENCHMARKING_SCORES, foldrecs>>

NextSS == CallSSScore

SpecSS == InitSS /\ [][NextSS]_vars

----------------------------------------------------------------------------
(* Claims about calculate_ss_score *)

SSDone == pc = "done" /\ "total_incorrect" \in DOMAIN result

\* N: the number of query residues whose name is not a gap
GaplessQueryLen == Cardinality({i \in DOMAIN query : query[i].name # GAP})

\* positions carrying a secondary-structure label
QueryLabelled == {i \in DOMAIN query : query[i].secondary_struct # GAP}
TemplLabelled == {i \in DOMAIN template : template[i].secondary_struct # GAP}

\* the k-th (from 0) element of the set of positions S
Kth(S, k) == CHOOSE i \in S : Cardinality({x \in S : x < i}) = k

\* M: the indices k at which the k-th labelled query residue and the k-th
\* labelled template residue both exist, the confidence is < 7, the labels differ
Mismatches ==
    {k \in 0 .. get_size(query) :
        /\ k < Cardinality(QueryLabelled)
        /\ k < Cardinality(TemplLabelled)
        /\ query[Kth(QueryLabelled, k)].ss_confidence < 7
        /\ query[Kth(QueryLabelled, k)].secondary_struct
               # template[Kth(TemplLabelled, k)].secondary_struct}

LabelsIdentical ==
    \A i \in DOMAIN query : query[i].secondary_struct = template[i].secondary_struct

\* C7: for all inputs the returned score is in [0, 1].
C7_ScoreInUnitInterval ==
    SSDone => (~result.raised /\ 0 <= result.num /\ result.num <= result.den)

\* C8 as stated: when the query's labels equal the template's at every
\* position, the returned score is 1.
C8_IdenticalLabelsScoreOne ==
    (SSDone /\ LabelsIdentical) => (~result.raised /\ result.num = result.den)

\* C8 as amended: when the labels are identical at every position the score is
\* 1 if the query has a residue whose name is not a gap, and 0 if it has none.
C8_IdenticalLabelsScoreOneUnlessEmpty ==
    (SSDone /\ LabelsIdentical)
        => /\ ~result.raised
           /\ GaplessQueryLen > 0 => result.num = result.den
           /\ GaplessQueryLen = 0 => result.num = 0

\* identical labels, some of them not gaps and of low confidence, were scored 1
C8_Witness ==
    /\ SSDone /\ LabelsIdentical
    /\ GaplessQueryLen > 0
    /\ \E i \in QueryLabelled : \E j \in DOMAIN query :
          /\ j < i /\ query[j].secondary_struct = GAP
          /\ query[i].ss_confidence < 7
    /\ result.num = result.den

\* C9: the score is (N - M) / N, N the number of query residues whose name is
\* not a gap and M the number of mismatches of confidence < 7 between the k-th
\* labelled query residue and the k-th labelled template residue (N > 0: the
\* quotient is not defined otherwise).
C9_ScoreIsQ3 ==
    (SSDone /\ GaplessQueryLen > 0)
        => /\ ~result.raised
           /\ result.den = GaplessQueryLen
           /\ result.num = GaplessQueryLen - Cardinality(Mismatches)

\* the cursors are apart, one mismatch of confidence >= 7 is not counted and one
\* of confidence < 7 is
C9_Witness ==
    /\ SSDone /\ GaplessQueryLen > 0
    /\ \E k \in Mismatches : Kth(QueryLabelled, k) # Kth(TemplLabelled, k)
    /\ \E i \in QueryLabelled : query[i].ss_confidence >= 7
          /\ \E j \in TemplLabelled :
                /\ Cardinality({x \in QueryLabelled : x < i})
                       = Cardinality({x \in TemplLabelled : x < j})
                /\ query[i].secondary_struct # template[j].secondary_struct
    /\ result.num = GaplessQueryLen - Cardinality(Mismatches)

\* C10: when the query has no residue whose name is not a gap, no exception
\* escapes: the division by zero is caught and reported, and 0 is returned.
C10_EmptyQueryScoresZero ==
    (SSDone /\ GaplessQueryLen = 0)
        => (~result.raised /\ result.reported /\ result.num = 0)

\* a fully-gapped query of length 5 was scored
C10_Witness ==
    /\ SSDone
    /\ get_size(query) = 5
    /\ \A i \in DOMAIN query : query[i].name = GAP
    /\ result.reported

----------------------------------------------------------------------------
(* keep_accessible_residues, Alignment.calculate_solvent_access_score *)

\* longest alignment given to calculate_solvent_access_score
MaxSolvLen == 3

\* str(residue): the residue's one-letter name
ResidueStr(res) == res.name

RECURSIVE IndexAli(_, _)
\* [index for index, residue in enumerate(residues) if str(residue) != "-"],
\* from position i on, as a sequence
IndexAli(residues, i) ==
    IF i >= Size(residues) THEN <<>>
    ELSE IF ResidueStr(residues[i]) # GAP
        THEN <<i>> \o IndexAli(residues, i + 1)
        ELSE IndexAli(residues, i + 1)

Min(a, b) == IF a <= b THEN a ELSE b

\* dict(zip(index_ali, values)): zip stops at the shorter of the two
ZipDict(index_ali, values) ==
    LET n == Min(Len(index_ali), Len(values))
    IN  [key \in {index_ali[k] : k \in 1 .. n} |->
            values[CHOOSE k \in 1 .. n : index_ali[k] = key]]

\* {key: val for key, val in dssp_rsa.items() if val > threshold}
KeepAccessibleOrEqual(dssp_rsa, threshold) ==
    LET keys == {key \in DOMAIN dssp_rsa : dssp_rsa[key] >= threshold}
    IN  [key \in keys |-> dssp_rsa[key]]
keep_accessible_residues(dssp_rsa, threshold) ==
    LET keys == {key \in DOMAIN dssp_rsa : dssp_rsa[key] > threshold}
    IN  [key \in keys |-> dssp_rsa[key]]

\* the whole call, given the relative accessibilities DSSP returned for the
\* predicted model and for the template, in residue order.  The score is
\* num/den; the maps and the index list are kept for the record.
calculate_solvent_access_score(q, t, dssp_pred_model, dssp_template_model, threshold) ==
    LET query_index_ali == IndexAli(q, 0)
        template_index_ali == IndexAli(t, 0)
        rsa_pred_model == ZipDict(query_index_ali, dssp_pred_model)
        rsa_template_model == ZipDict(template_index_ali, dssp_template_model)
        pred_access_residues == keep_accessible_residues(rsa_pred_model, threshold)
        template_access_residues == keep_accessible_residues(rsa_template_model, threshold)
        common_residues_len ==
            Cardinality((DOMAIN pred_access_residues) \cap (DOMAIN template_access_residues))
        zero == Len(query_index_ali) = 0
    IN  [raised |-> IF zero THEN "ZeroDivisionError" ELSE "none",
         num |-> IF zero THEN 0 ELSE common_residues_len,
         den |-> IF zero THEN 1 ELSE Len(query_index_ali),
         query_index_ali |-> query_index_ali,
         rsa_pred_model |-> rsa_pred_model,
         rsa_template_model |-> rsa_template_model,
         threshold |-> threshold]

----------------------------------------------------------------------------
(* Inputs of calculate_solvent_access_score *)

SolvNames == {"A", GAP}
\* relative accessibilities, in hundredths
RSAValues == {25, 60}
Thresholds == {25, 60}

SolvInputs(n) ==
    {[q |-> [i \in 0 .. n - 1 |-> QRes(cols[i][1], GAP, 0)],
      t |-> [i \in 0 .. n - 1 |-> TRes(cols[i][2], GAP, 0)]] :
        cols \in [0 .. n - 1 -> SolvNames \X SolvNames]}

\* the lists of values DSSP can return for a structure of n residues or more
RSALists(n) == UNION {[1 .. k -> RSAValues] : k \in {n, n + 1}}

InitSolv ==
    /\ \E n \in 0 .. MaxSolvLen : \E inp \in SolvInputs(n) :
          query = inp.q /\ template = inp.t
    /\ dist_range = <<0, 0>>
    /\ first = 1 /\ last = 1 /\ size = 0
    /\ pc = "input"
    /\ result = NoResult
    /\ NoModeller /\ NoBenchmark

\* the predicted model holds the query's residues; the template structure may
\* hold one residue more than the alignment
CallSolventAccessScore ==
    /\ pc = "input"
    /\ \E dssp_pred_model \in [1 .. Len(IndexAli(query, 0)) -> RSAValues] :
       \E dssp_template_model \in RSALists(Len(IndexAli(template, 0))) :
       \E threshold \in Thresholds :
          result' = calculate_solvent_access_score(query, template, dssp_pred_model,
                                                   dssp_template_model, threshold)
    /\ pc' = "done"
    /\ UNCHANGED <<query, template, dist_range, first, last, size>>
    /\ UNCHANGED <<cwd, dirs, workers, BENCHMARKING_SCORES, foldrecs>>

NextSolv == CallSolventAccessScore

SpecSolv == InitSolv /\ [][NextSolv]_vars

----------------------------------------------------------------------------
(* Claims about calculate_solvent_access_score *)

SolvDone == pc = "done" /\ "rsa_pred_model" \in DOMAIN result

\* A and B: the positions of a map whose accessibility is above the threshold
Accessible(map) == {p \in DOMAIN map : map[p] > result.threshold}

\* Q: the aligned query positions
AlignedQuery == {i \in DOMAIN query : query[i].name # GAP}

C12_BoundsDisjointIdentical ==
    SolvDone
        => /\ result.raised = "none"
           /\ 0 <= result.num /\ result.num <= result.den
           /\ (Accessible(result.rsa_pred_model) \cap Accessible(result.rsa_template_model) = {})
                  => result.num = 0
           /\ (result.rsa_pred_model = result.rsa_template_model)
                  => result.num = result.den

\* C13: when the query has no aligned position the call does not divide by zero
\* and returns 0.
C13_NoAlignedPositionScoresZero ==
    (SolvDone /\ AlignedQuery = {})
        => (result.raised = "none" /\ result.num = 0)

----------------------------------------------------------------------------
(* Alignment.calculate_coevolution_score *)

\* contact threshold of line 303, in angstroms
ContactCutoff == 8

\* isinstance(dist, float) and dist < 8: None and "x" are not floats
IsContact(cell) == cell.tag = "dist" /\ cell.val < ContactCutoff * Scale

\* the condition of lines 303-304 for one top_position, on the entry alone
TruePositiveOneWay(distance_matrix, top_position) ==
    IsContact(distance_matrix[<<top_position[1], top_position[2]>>])
TruePositive(distance_matrix, top_position) ==
    \/ IsContact(distance_matrix[<<top_position[1], top_position[2]>>])
    \/ IsContact(distance_matrix[<<top_position[2], top_position[1]>>])

RECURSIVE CountTruePos(_, _, _, _, _)
\* for top_position in top_couplings_dict.values(): ... true_pos += 1
\* top_couplings_dict is the sequence of its values, by rank
CountTruePos(distance_matrix, sz, top_couplings_dict, k, true_pos) ==
    IF k > Len(top_couplings_dict) THEN [raised |-> "none", true_pos |-> true_pos]
    ELSE LET top_position == top_couplings_dict[k]
         IN  IF top_position[1] >= sz \/ top_position[2] >= sz
             THEN [raised |-> "IndexError", true_pos |-> true_pos]
             ELSE CountTruePos(distance_matrix, sz, top_couplings_dict, k + 1,
                               IF TruePositive(distance_matrix, top_position)
                                   THEN true_pos + 1 ELSE true_pos)

\* self.query.last - self.query.first
SpreadReversed(fst, lst) == fst - lst
Spread(fst, lst) == lst - fst

\* lines 298-309 on a given distance matrix; the score is log10(arg)
contact_score(distance_matrix, sz, top_couplings_dict, fst, lst) ==
    LET counted == CountTruePos(distance_matrix, sz, top_couplings_dict, 1, 0)
    IN  [raised |-> counted.raised,
         true_pos |-> counted.true_pos,
         arg |-> IF counted.raised = "none"
                     THEN 1 + counted.true_pos * Spread(fst, lst) ELSE 0]

\* the whole call; index_len is len(index_list)
calculate_coevolution_score(q, t, fst, lst, index_len, top_couplings_dict) ==
    LET dm == calculate_distance_matrix(q, t, fst, lst, index_len)
        scored == contact_score(dm.distance, index_len, top_couplings_dict, fst, lst)
    IN  IF dm.raised # "none"
        THEN [raised |-> dm.raised, true_pos |-> 0, arg |-> 0,
              distance_matrix |-> dm.distance, top_couplings_dict |-> top_couplings_dict]
        ELSE [raised |-> scored.raised, true_pos |-> scored.true_pos, arg |-> scored.arg,
              distance_matrix |-> dm.distance, top_couplings_dict |-> top_couplings_dict]

----------------------------------------------------------------------------
(* Inputs of calculate_coevolution_score *)

\* longest alignment given to calculate_coevolution_score
MaxCoevLen == 3
\* largest query.first
MaxCoevFirst == 2
\* largest query.last and largest len(index_list)
MaxCoevSize == 4
\* largest number of entries of top_couplings_dict
MaxCouplings == 2

\* distance between consecutive CA atoms of the template, in tenths
CoevSpacing == 50

CoevInputs(n) ==
    {[q |-> [i \in 0 .. n - 1 |-> QRes(cols[i][1], GAP, 0)],
      t |-> [i \in 0 .. n - 1 |->
                TResCB(cols[i][2], i * CoevSpacing, cb, i * CoevSpacing + (i % 2) * CBOffset)]] :
        cols \in [0 .. n - 1 -> DMColumns], cb \in BOOLEAN}

\* the couplings ccmpred can rank, best first
CouplingRanking == <<<<0, 1>>, <<2, 1>>, <<0, 2>>, <<1, 2>>>>
CouplingPairs == {CouplingRanking[k] : k \in DOMAIN CouplingRanking}

RECURSIVE RankedFrom(_, _)
\* the couplings of CouplingRanking whose place is in kept, from place k on
RankedFrom(kept, k) ==
    IF k > Len(CouplingRanking) THEN <<>>
    ELSE IF k \in kept THEN <<CouplingRanking[k]>> \o RankedFrom(kept, k + 1)
    ELSE RankedFrom(kept, k + 1)

\* the dictionaries of at most MaxCouplings top couplings, as the sequence of
\* their values by rank
TopCouplings ==
    {RankedFrom(kept, 1) :
        kept \in {S \in SUBSET (DOMAIN CouplingRanking) : Cardinality(S) <= MaxCouplings}}

InitCoev ==
    /\ \E n \in 0 .. MaxCoevLen : \E inp \in CoevInputs(n) :
          query = inp.q /\ template = inp.t
    /\ dist_range = <<0, 0>>
    /\ first \in 1 .. MaxCoevFirst
    /\ last \in 0 .. MaxCoevSize
    /\ size \in 0 .. MaxCoevSize
    /\ pc = "input"
    /\ result = NoResult
    /\ NoModeller /\ NoBenchmark

\* size is len(index_list)
CallCoevolutionScore ==
    /\ pc = "input"
    /\ \E top_couplings_dict \in TopCouplings :
          result' = calculate_coevolution_score(query, template, first, last, size,
                                                top_couplings_dict)
    /\ pc' = "done"
    /\ UNCHANGED <<query, template, dist_range, first, last, size>>
    /\ UNCHANGED <<cwd, dirs, workers, BENCHMARKING_SCORES, foldrecs>>

NextCoev == CallCoevolutionScore

SpecCoev == InitCoev /\ [][NextCoev]_vars

----------------------------------------------------------------------------
(* Claims about calculate_coevolution_score *)

CoevDone == pc = "done" /\ "top_couplings_dict" \in DOMAIN result

CoevReturned == CoevDone /\ result.raised = "none"

\* a numeric entry below 8 angstroms
NumericBelowEight(i, j) ==
    /\ <<i, j>> \in DOMAIN result.distance_matrix
    /\ result.distance_matrix[<<i, j>>].tag = "dist"
    /\ result.distance_matrix[<<i, j>>].val < 8 * Scale

\* T: the entries of top_couplings_dict with a numeric distance below 8 at
\* [i, j] or [j, i]
TrueContacts ==
    {k \in DOMAIN result.top_couplings_dict :
        LET i == result.top_couplings_dict[k][1]
            j == result.top_couplings_dict[k][2]
        IN  NumericBelowEight(i, j) \/ NumericBelowEight(j, i)}

\* the matrix of Scenario C: 5.0 at [0, 3], nothing else set
ScenarioCMatrix ==
    [c \in (0 .. 3) \X (0 .. 3) |-> IF c = <<0, 3>> THEN Dist(50) ELSE None]

C15_MoreContactsNeverLower ==
    CoevReturned
        => \A p \in CouplingPairs :
              (NumericBelowEight(p[1], p[2]) \/ NumericBelowEight(p[2], p[1]))
                  => LET more == calculate_coevolution_score(query, template, first, last, size,
                                     Append(result.top_couplings_dict, p))
                     IN  more.raised = "none" /\ more.arg >= result.arg

\* a dictionary that can grow by a true positive, on a span of zero and on a
\* longer one
C15_Witness ==
    /\ CoevReturned
    /\ \E p \in CouplingPairs : NumericBelowEight(p[1], p[2])
    /\ Len(result.top_couplings_dict) = 1
    /\ result.true_pos = 1
    /\ last > first

\* C16: for any first, last and len(index_list), the call with an empty
\* top_couplings_dict does not raise, calculate_distance_matrix included, and
\* returns log10(1) = 0.
C16_EmptyCouplingsScoreZero ==
    (CoevDone /\ result.top_couplings_dict = <<>>)
        => (result.raised = "none" /\ result.arg = 1)

FullyGapped == Size(query) > 0 /\ \A i \in DOMAIN query : IsGap(query[i])

\* C17: for a fully-gapped query calculate_threading_score and
\* calculate_coevolution_score both return 0 without raising (no template
\* residue is read at an index past the alignment, no unassigned loop variable
\* is used).
C17_FullyGappedScoresZero ==
    (CoevDone /\ FullyGapped)
        => /\ \A dr \in DistRanges :
                 LET threading == calculate_threading_score(query, template, dr)
                 IN  ~threading.raised /\ threading.value = 0
           /\ result.raised = "none"
           /\ result.arg = 1

----------------------------------------------------------------------------
(* Alignment.calculate_modeller_score *)

\* res_path + "/modeller/" and the alignment directory below it
ModellerDir == <<"modeller">>
AliDir == <<"alignments">>

\* the path a name resolves to: relative paths start at the working directory
Resolve(dir, path) == IF path.abs THEN path.parts ELSE dir \o path.parts

\* a directory and its parents (mkdir(parents=True, exist_ok=True))
Parents(path) == {SubSeq(path, 1, k) : k \in 1 .. Len(path)}

\* root_dir + "/data/pdb/" + self.template.name
PathToAtm(root_dir, name) == root_dir \o <<"data", "pdb", name>>

\* one completed model of a_model.outputs, and the entry of a failed one
BuiltModel(name) == [name |-> name, has_score |-> TRUE]
FailedModel(name) == [name |-> name, has_score |-> FALSE]

\* the call for one alignment, before its first line
NewCall(name, res_path) ==
    [pc |-> "getcwd", name |-> name, res_path |-> res_path,
     root_dir |-> <<>>, path_to_atm |-> <<>>, ali_written |-> <<>>,
     model_dir |-> <<>>, outputs |-> <<>>, made |-> "none",
     logged |-> FALSE, raised |-> "none"]

\* the scoring calls and the benchmarking script are not part of the call
ModellerOnly ==
    /\ pc = "modeller"
    /\ UNCHANGED <<query, template, dist_range, first, last, size, pc, result>>
    /\ UNCHANGED <<BENCHMARKING_SCORES, foldrecs>>

Goto(w, label) == workers' = [workers EXCEPT ![w].pc = label]

RaiseIn(w, err) == workers' = [workers EXCEPT ![w].pc = "raised", ![w].raised = err]

\* root_dir = os.getcwd()
Getcwd(w) ==
    /\ ModellerOnly
    /\ workers[w].pc = "getcwd"
    /\ workers' = [workers EXCEPT ![w].pc = "mkdir", ![w].root_dir = cwd]
    /\ UNCHANGED <<cwd, dirs>>

\* pathlib.Path(modeller_out_dir + ali_dir).mkdir(parents=True, exist_ok=True)
Mkdir(w) ==
    /\ ModellerOnly
    /\ workers[w].pc = "mkdir"
    /\ LET res_path == workers[w].res_path
           made_dir == Resolve(cwd, [res_path EXCEPT !.parts = @ \o ModellerDir \o AliDir])
       IN  dirs' = dirs \cup Parents(made_dir)
    /\ Goto(w, "chdir")
    /\ UNCHANGED cwd

\* os.chdir(modeller_out_dir)
Chdir(w) ==
    /\ ModellerOnly
    /\ workers[w].pc = "chdir"
    /\ LET res_path == workers[w].res_path
           modeller_out_dir == Resolve(cwd, [res_path EXCEPT !.parts = @ \o ModellerDir])
       IN  IF modeller_out_dir \in dirs
           THEN cwd' = modeller_out_dir /\ Goto(w, "reindex")
           ELSE cwd' = cwd /\ RaiseIn(w, "FileNotFoundError")
    /\ UNCHANGED dirs

\* path_to_atm = root_dir + "/data/pdb/" + self.template.name; reindex_pdb, parse_pdb
Reindex(w) ==
    /\ ModellerOnly
    /\ workers[w].pc = "reindex"
    /\ workers' = [workers EXCEPT
           ![w].pc = "write_alignment",
           ![w].path_to_atm = PathToAtm(workers[w].root_dir, workers[w].name)]
    /\ UNCHANGED <<cwd, dirs>>

\* self.write_alignment_for_modeller("./alignments/"): open(..., "w") below the
\* working directory
WriteAlignment(w) ==
    /\ ModellerOnly
    /\ workers[w].pc = "write_alignment"
    /\ IF cwd \o AliDir \in dirs
       THEN workers' = [workers EXCEPT ![w].pc = "make", ![w].ali_written = cwd \o AliDir]
       ELSE RaiseIn(w, "FileNotFoundError")
    /\ UNCHANGED <<cwd, dirs>>

\* what a_model.make() can do: build the model in the working directory, or
\* raise ModellerError (before any model is stored, or with the failed model
\* stored); it cannot build when alnfile, relative to the working directory,
\* is not the file that was written
MakeOutcomes(w) ==
    IF workers[w].ali_written = cwd \o AliDir /\ workers[w].path_to_atm \in dirs
    THEN {"ok", "ModellerError", "ModellerErrorInModel"}
    ELSE {"ModellerError", "IOError"}

\* try: a_model.make()  except m.ModellerError as err: logging.warning(...)
Make(w) ==
    /\ ModellerOnly
    /\ workers[w].pc = "make"
    /\ \E outcome \in MakeOutcomes(w) :
          workers' = [workers EXCEPT ![w] =
              IF outcome = "ok"
              THEN [@ EXCEPT !.pc = "outputs", !.made = "ok", !.model_dir = cwd,
                             !.outputs = <<BuiltModel(workers[w].name)>>]
              ELSE IF outcome = "ModellerError"
              THEN [@ EXCEPT !.pc = "outputs", !.made = "ModellerError", !.logged = TRUE]
              ELSE IF outcome = "ModellerErrorInModel"
              THEN [@ EXCEPT !.pc = "outputs", !.made = "ModellerError", !.logged = TRUE,
                             !.outputs = <<FailedModel(workers[w].name)>>]
              ELSE [@ EXCEPT !.pc = "raised", !.made = outcome, !.raised = outcome]]
    /\ UNCHANGED <<cwd, dirs>>

\* new_model_pdb = a_model.outputs[0]["name"]
\* modeller_dope_score = a_model.outputs[0]["DOPE-HR score"]
ReadOutputs(w) ==
    /\ ModellerOnly
    /\ workers[w].pc = "outputs"
    /\ IF workers[w].outputs = <<>> THEN RaiseIn(w, "IndexError")
       ELSE IF ~workers[w].outputs[1].has_score THEN RaiseIn(w, "KeyError")
       ELSE Goto(w, "rename")
    /\ UNCHANGED <<cwd, dirs>>

\* os.rename(new_model_pdb, path_to_atm + "/" + ... + ".atm"); parse_pdb
Rename(w) ==
    /\ ModellerOnly
    /\ workers[w].pc = "rename"
    /\ IF workers[w].model_dir = cwd /\ workers[w].path_to_atm \in dirs
       THEN Goto(w, "chdir_root")
       ELSE RaiseIn(w, "FileNotFoundError")
    /\ UNCHANGED <<cwd, dirs>>

\* os.chdir(root_dir); return modeller_dope_score * (-1)
ChdirRoot(w) ==
    /\ ModellerOnly
    /\ workers[w].pc = "chdir_root"
    /\ cwd' = workers[w].root_dir
    /\ Goto(w, "returned")
    /\ UNCHANGED dirs

----------------------------------------------------------------------------
(* Calls of calculate_modeller_score in one process *)

\* largest number of calls running in the process
MaxWorkers == 2

TemplateNames == <<"t1", "t2", "t3">>

\* output_path, as the command line gives it
ResPaths == {[abs |-> FALSE, parts |-> <<"results">>],
             [abs |-> TRUE, parts |-> RootDir \o <<"results">>]}

InitModeller ==
    /\ query = <<>> /\ template = <<>>
    /\ dist_range = <<0, 0>>
    /\ first = 1 /\ last = 1 /\ size = 0
    /\ pc = "modeller"
    /\ result = NoResult
    /\ cwd = RootDir
    /\ \E n \in 1 .. MaxWorkers : \E res_path \in ResPaths :
          /\ workers = [w \in 1 .. n |-> NewCall(TemplateNames[w], res_path)]
          /\ dirs = UNION {Parents(PathToAtm(RootDir, TemplateNames[w])) : w \in 1 .. n}
    /\ NoBenchmark

NextModeller ==
    \/ \E w \in DOMAIN workers : Getcwd(w)
    \/ \E w \in DOMAIN workers : Mkdir(w)
    \/ \E w \in DOMAIN workers : Chdir(w)
    \/ \E w \in DOMAIN workers : Reindex(w)
    \/ \E w \in DOMAIN workers : WriteAlignment(w)
    \/ \E w \in DOMAIN workers : Make(w)
    \/ \E w \in DOMAIN workers : ReadOutputs(w)
    \/ \E w \in DOMAIN workers : Rename(w)
    \/ \E w \in DOMAIN workers : ChdirRoot(w)

SpecModeller == InitModeller /\ [][NextModeller]_vars

----------------------------------------------------------------------------
(* Claims about calculate_modeller_score *)

Finished(w) == workers[w].pc \in {"returned", "raised"}

\* res_path + "/modeller/", seen from the directory the program started in
OwnModellerDir(w) ==
    Resolve(RootDir, [workers[w].res_path EXCEPT !.parts = @ \o ModellerDir])

\* C18: if a_model.make() fails with a ModellerError, the failure is logged and
\* no exception escapes calculate_modeller_score into process.
C18_ModellerErrorDoesNotEscape ==
    pc = "modeller"
        => \A w \in DOMAIN workers :
              (workers[w].made = "ModellerError" /\ Finished(w))
                  => (workers[w].logged /\ workers[w].raised = "none")

\* C19: with two calls running in the process, each call captures the original
\* root directory as root_dir and builds path_to_atm from it, writes its
\* alignment file inside its own modeller output directory, and the process is
\* in the original root directory when both have returned.
C19_NoWorkingDirectoryCrossTalk ==
    (pc = "modeller" /\ Len(workers) = 2)
        => /\ \A w \in DOMAIN workers :
                 /\ workers[w].pc # "getcwd" => workers[w].root_dir = RootDir
                 /\ workers[w].path_to_atm # <<>>
                        => workers[w].path_to_atm = PathToAtm(RootDir, workers[w].name)
                 /\ workers[w].ali_written # <<>>
                        => workers[w].ali_written = OwnModellerDir(w) \o AliDir
           /\ (\A w \in DOMAIN workers : Finished(w)) => cwd = RootDir

----------------------------------------------------------------------------
(* script/benchmarking.py: the cumulative sums of the main loop, and top_n *)

\* largest number of templates in one query's scores.csv
MaxTemplates == 3
\* number of queries of data/foldrec
NbFoldrecs == 2

STRUCTURES == <<"Family", "Superfamily", "Fold">>

\* two of the seven score columns
SCORES == <<"threading", "sum_scores">>

\* the rows of each DataFrame: np.zeros((405, 3)) holds a row for every rank
\* and row 0; here one row per possible rank and row 0
Ranks == 0 .. MaxTemplates

\* BENCHMARKING_SCORES[score] = pd.DataFrame(np.zeros(...), columns=STRUCTURES)
ZeroScores ==
    [score \in {SCORES[k] : k \in DOMAIN SCORES} |->
        [structure \in {STRUCTURES[k] : k \in DOMAIN STRUCTURES} |-> [r \in Ranks |-> 0]]]

RECURSIVE Reverse(_)
Reverse(s) == IF s = <<>> THEN <<>> ELSE Append(Reverse(Tail(s)), Head(s))

\* query_scores.sort_values(by=score, ascending=False)["benchmark"]: the
\* benchmark column in the order of each score; the two scores rank the
\* templates in opposite orders
SortedBenchmarks(benchmark) ==
    [score \in {SCORES[k] : k \in DOMAIN SCORES} |->
        IF score = "threading" THEN benchmark ELSE Reverse(benchmark)]

QueryScores ==
    {SortedBenchmarks(benchmark) :
        benchmark \in UNION {[1 .. n -> {STRUCTURES[k] : k \in DOMAIN STRUCTURES}] :
                                n \in 1 .. MaxTemplates}}

RECURSIVE CumulativeSum(_, _, _, _, _)
\* for i, struct_type in enumerate(query_score["benchmark"]): one column
\*     if struct_type == structure: structures_count[structure] += 1
\*     BENCHMARKING_SCORES[score][structure][i+1] += structures_count[structure]
\* i counts from 0; the sequence is indexed from 1
CumulativeSum(column, benchmark, structure, i, structures_count) ==
    IF i >= Len(benchmark) THEN column
    ELSE LET count == IF benchmark[i + 1] = structure
                          THEN structures_count + 1 ELSE structures_count
         IN  CumulativeSum([column EXCEPT ![i + 1] = @ + count],
                           benchmark, structure, i + 1, count)

\* the body of the main loop for one query
AddQuery(scores, query_scores) ==
    [score \in DOMAIN scores |->
        [structure \in DOMAIN scores[score] |->
            CumulativeSum(scores[score][structure], query_scores[score], structure, 0, 0)]]

RECURSIVE MaxOf(_)
\* max(benchmarking_scores[scores][struct])
MaxOf(S) ==
    IF Cardinality(S) = 1 THEN CHOOSE x \in S : TRUE
    ELSE LET x == CHOOSE y \in S : TRUE
             rest == MaxOf(S \ {x})
         IN  IF x > rest THEN x ELSE rest

\* "{:.2f}".format((rank / max_rank) * 100), in hundredths of a percent; the
\* columns hold numpy floats, so 0 / 0 is nan and raises nothing
Percent(rank, max_rank) ==
    IF max_rank = 0 THEN [tag |-> "nan", val |-> 0]
    ELSE [tag |-> "num", val |-> (2 * rank * 10000 + max_rank) \div (2 * max_rank)]

\* if scores == "all": scores = "sum_scores"
ScoreName(scores) == IF scores = "all" THEN "sum_scores" ELSE scores

\* benchmarking_scores[scores][struct][top - 1]
TopRow(top) == top - 1

\* the numbers of the table top_n returns
top_n(structures, scores, top, benchmarking_scores) ==
    LET name == ScoreName(scores)
        structs == {structures[k] : k \in DOMAIN structures}
        rank == [struct \in structs |-> benchmarking_scores[name][struct][TopRow(top)]]
        max_rank == [struct \in structs |->
                        MaxOf({benchmarking_scores[name][struct][r] : r \in Ranks})]
    IN  [top |-> top, scores |-> scores, name |-> name,
         rank |-> rank, max_rank |-> max_rank,
         percent |-> [struct \in structs |-> Percent(rank[struct], max_rank[struct])]]

\* SELECTED_SCORE
SelectedScores == {"threading", "sum_scores", "all"}

InitBench ==
    /\ query = <<>> /\ template = <<>>
    /\ dist_range = <<0, 0>>
    /\ first = 1 /\ last = 1 /\ size = 0
    /\ pc = "loop"
    /\ result = NoResult
    /\ NoModeller
    /\ BENCHMARKING_SCORES = ZeroScores
    /\ foldrecs = <<>>

\* one pass of "for ind, query in enumerate(ALL_FOLDRECS, 1)"
ReadQuery ==
    /\ pc = "loop"
    /\ Len(foldrecs) < NbFoldrecs
    /\ \E query_scores \in QueryScores :
          /\ BENCHMARKING_SCORES' = AddQuery(BENCHMARKING_SCORES, query_scores)
          /\ foldrecs' = Append(foldrecs, query_scores)
    /\ UNCHANGED <<query, template, dist_range, first, last, size, pc, result>>
    /\ UNCHANGED <<cwd, dirs, workers>>

\* print(top_n(STRUCTURES, SELECTED_SCORE, topn, BENCHMARKING_SCORES)), once the
\* loop has ended
CallTopN ==
    /\ pc = "loop"
    /\ \E scores \in SelectedScores : \E top \in 1 .. MaxTemplates :
          result' = top_n(STRUCTURES, scores, top, BENCHMARKING_SCORES)
    /\ pc' = "done"
    /\ UNCHANGED <<query, template, dist_range, first, last, size>>
    /\ UNCHANGED <<cwd, dirs, workers, BENCHMARKING_SCORES, foldrecs>>

NextBench == ReadQuery \/ CallTopN

SpecBench == InitBench /\ [][NextBench]_vars

----------------------------------------------------------------------------
(* Claims about top_n *)

BenchDone == pc = "done" /\ "max_rank" \in DOMAIN result

\* the score column the table is about
Reported == IF result.scores = "all" THEN "sum_scores" ELSE result.scores

\* benchmarks of a structure type among the N best templates of one query
AmongBest(query_scores, struct, N) ==
    Cardinality({k \in 1 .. Len(query_scores[Reported]) :
                    k <= N /\ query_scores[Reported][k] = struct})

\* every query read had at least N templates
AllRankedTo(N) == \A q \in DOMAIN foldrecs : Len(foldrecs[q][Reported]) >= N

\* C20: top_n reports, for each structure type, the cumulative number of
\* benchmarks of that type among the N best-ranked templates, which the main
\* loop stores at row N, and its percentage of the column's maximum; the score
\* name "all" stands for "sum_scores".
C20_TopNReportsRowN ==
    BenchDone
        => \A k \in DOMAIN STRUCTURES :
              LET struct == STRUCTURES[k]
                  column == BENCHMARKING_SCORES[Reported][struct]
              IN  /\ result.rank[struct] = column[result.top]
                  /\ AllRankedTo(result.top)
                        => result.rank[struct] =
                               SumOver(DOMAIN foldrecs,
                                       [q \in DOMAIN foldrecs |->
                                           AmongBest(foldrecs[q], struct, result.top)])
                  /\ result.max_rank[struct] > 0
                        => result.percent[struct] =
                               [tag |-> "num",
                                val |-> (2 * 10000 * column[result.top] + result.max_rank[struct])
                                            \div (2 * result.max_rank[struct])]

----------------------------------------------------------------------------
(* Claims about the energy bucket of calculate_threading_score *)

\* round(d * 30 / 15) for a distance in tenths: 2 * d is never half-way
RoundedIndex(dist) == (2 * dist * DopeLen + DopeMax * Scale) \div (2 * DopeMax * Scale)

\* clamped to the valid indices of the 30-entry array
ClampedIndex(dist) ==
    IF RoundedIndex(dist) > DopeLen - 1 THEN DopeLen - 1 ELSE RoundedIndex(dist)

\* the pairs whose energy was looked up
LookedUp ==
    {c \in (DOMAIN query) \X (DOMAIN query) :
        /\ c[1] < c[2]
        /\ NonGapAt(c[1]) /\ NonGapAt(c[2])
        /\ result.energy[c].tag = "num"
        /\ dist_range[1] <= TemplateDist(c[1], c[2])
        /\ TemplateDist(c[1], c[2]) <= dist_range[2]}

\* C21: for every template distance d in dist_range the energy array is read at
\* round(d * 30 / 15) clamped to 0..29: no lookup leaves the array (d = 15
\* included), and 7.8 selects bucket 16, not the truncated 15.
C21_BucketIsRoundedAndClamped ==
    ThreadingDone
        => /\ ~result.raised
           /\ \A c \in LookedUp :
                 result.energy[c].val =
                     dope_dict(query[c[1]].name, query[c[2]].name,
                               ClampedIndex(TemplateDist(c[1], c[2])))

----------------------------------------------------------------------------
(* Claims about the working directory after calculate_modeller_score *)

\* C22: on every exit of calculate_modeller_score, by return or by an exception
\* raised after os.chdir(modeller_out_dir), the working directory is the one
\* that was current on entry (one call running alone).
C22_WorkingDirectoryRestored ==
    (pc = "modeller" /\ Len(workers) = 1 /\ Finished(1))
        => cwd = RootDir

----------------------------------------------------------------------------
(* Claims about the cursors of calculate_distance_matrix *)

\* as many non-gap query residues as the span first..last holds
SpanMatchesQuery == Cardinality(QueryIndices) = last - first + 1

\* the matrix before the trailing fill: the leading fill and the two loops
BeforeTrailingFill ==
    LET distance0 == [c \in (0 .. size - 1) \X (0 .. size - 1) |-> None]
        st0 == [distance |-> distance0, raised |-> "none", index_i |-> 0, index_j |-> 0]
        pos == IF first - 1 > 0 THEN first - 1 ELSE 0
    IN  DMOuter(DMLeading(st0, first, size, 0), query, template, last, size, pos).distance

\* C23: whenever the query has last - first + 1 non-gap residues, every numeric
\* entry [p, q], p < q, has p and q inside [first-1, last-1], is the distance
\* between the template residues at the alignment indices of the query residues
\* at ungapped positions p and q, both non-gap in the template, and the trailing
\* fill leaves every numeric entry as it was.
C23_CursorsStayConsistent ==
    (DMDone /\ SpanMatchesQuery)
        => /\ \A c \in DOMAIN result.distance :
                 result.distance[c].tag = "dist"
                     => /\ c[1] < c[2]
                        /\ InSpan(c[1]) /\ InSpan(c[2])
                        /\ ~IsGap(template[AlignedIndex(c[1])])
                        /\ ~IsGap(template[AlignedIndex(c[2])])
                        /\ result.distance[c] =
                               Dist(AtomDistance(template[AlignedIndex(c[1])],
                                                 template[AlignedIndex(c[2])]))
           /\ \A c \in DOMAIN BeforeTrailingFill :
                 BeforeTrailingFill[c].tag = "dist" => result.distance[c] = BeforeTrailingFill[c]

\* a query gap inside the span moves the cursors apart, the span starts after
\* the first query position and ends before the last, and a distance is stored
C23_Witness ==
    /\ DMDone /\ SpanMatchesQuery
    /\ result.raised = "none"
    /\ first > 1 /\ size > last
    /\ \E c \in DOMAIN result.distance :
          /\ result.distance[c].tag = "dist"
          /\ AlignedIndex(c[2]) - AlignedIndex(c[1]) > c[2] - c[1]

====
